---- MODULE Spec2Model ----
(***************************************************************************)
(* Model of cursor_machine_id.py: the identifier generator, the config     *)
(* store (read_existing_config / save_config) and the CLI flow of main().  *)
(*                                                                         *)
(* Identifier strings are modelled as naturals: 0 is the empty string "",  *)
(* a positive number is a non-empty string.  The random generators return  *)
(* values never produced before (a counter), which is what "freshly        *)
(* generated" means up to the negligible collision probability.            *)
(* The file system is the config file, its parent directory chain and the  *)
(* sibling backup files, keyed by the unix second of their name.           *)
(***************************************************************************)
EXTENDS Integers, FiniteSets, Sequences, TLC

\* ------------------------------------------------------------------ bounds
MaxRuns == 2        \* program runs in one behaviour
MaxTime == 1        \* unix seconds 0..MaxTime
MaxPids == 1        \* process ids 1..MaxPids that pgrep can report

Pids == 1..MaxPids

\* ------------------------------------------------------- error type constants
ERR_CONFIG == "config_error"

NoError == [type |-> "none", op |-> "none"]
AppError(error_type, op) == [type |-> error_type, op |-> op]
\* an exception that is not an AppError (OSError, UnboundLocalError, ...)
PyError(cls) == [type |-> cls, op |-> "none"]

\* ------------------------------------------------------------ StorageConfig
KMac     == "telemetry.macMachineId"
KMachine == "telemetry.machineId"
KDev     == "telemetry.devDeviceId"
KSqm     == "telemetry.sqmId"
IdKeys   == {KMac, KMachine, KDev, KSqm}
OtherKeys == {"storage.serviceMachineId"}

StorageConfig(mac, machine, dev, sqm) ==
    [tag |-> "cfg",
     telemetry_mac_machine_id |-> mac,
     telemetry_machine_id     |-> machine,
     telemetry_dev_device_id  |-> dev,
     telemetry_sqm_id         |-> sqm]

\* Python's None, and a local variable that was never assigned
NoneCfg    == [StorageConfig(0, 0, 0, 0) EXCEPT !.tag = "none"]
UnboundCfg == [StorageConfig(0, 0, 0, 0) EXCEPT !.tag = "unbound"]

to_dict(self) ==
    [k \in IdKeys |->
        CASE k = KMac     -> self.telemetry_mac_machine_id
          [] k = KMachine -> self.telemetry_machine_id
          [] k = KDev     -> self.telemetry_dev_device_id
          [] k = KSqm     -> self.telemetry_sqm_id]

\* ------------------------------------------------------------ file contents
EmptyObj == [k \in {} |-> 0]

\* kind: "absent"    the path does not exist
\*       "object"    a JSON object, data maps its keys to their values
\*       "invalid"   exists, but is not parseable as a JSON object
\*       "truncated" exists, left empty or partial by an interrupted write
\* nl:   line ending of the bytes on disk
Content(kind, data, nl) == [kind |-> kind, data |-> data, nl |-> nl]
NoFile    == Content("absent", EmptyObj, "LF")
Invalid   == Content("invalid", EmptyObj, "LF")
Truncated == Content("truncated", EmptyObj, "LF")

exists(c) == c.kind # "absent"

\* data.get(key, "")
get(data, k) == IF k \in DOMAIN data THEN data[k] ELSE 0

\* json.load followed by the dict operations of the callers: succeeds only
\* for a JSON object
Parses(c) == c.kind = "object"

\* open(path, 'r', encoding='utf-8').read() written back through
\* open(path, 'w', encoding='utf-8'): universal newlines turn CRLF into LF
TextCopy(c) == [c EXCEPT !.nl = "LF"]

\* json.dump(new_data, f, indent=2)
JsonDump(data) == Content("object", data, "LF")

\* ----------------------------------------------------- identifier generator
\* generate_mac_machine_id / generate_machine_id / generate_dev_device_id:
\* the n-th value drawn from the random source
generate_mac_machine_id(n) == n
generate_machine_id(n)     == n
generate_dev_device_id(n)  == n

new_storage_config_NoCarry(old_config, n) ==
    StorageConfig(generate_mac_machine_id(n), generate_machine_id(n + 1),
                  generate_dev_device_id(n + 2), generate_mac_machine_id(n + 3))

new_storage_config(old_config, n) ==
    LET config == StorageConfig(generate_mac_machine_id(n),
                                generate_machine_id(n + 1),
                                generate_dev_device_id(n + 2), 0)
    IN  IF old_config.tag = "cfg" /\ old_config.telemetry_sqm_id # 0
        THEN [config EXCEPT !.telemetry_sqm_id = old_config.telemetry_sqm_id]
        ELSE [config EXCEPT !.telemetry_sqm_id = generate_mac_machine_id(n + 3)]

\* number of values new_storage_config draws from the random source
Drawn(old_config) ==
    IF old_config.tag = "cfg" /\ old_config.telemetry_sqm_id # 0 THEN 3 ELSE 4

\* ------------------------------------------------------------- config store
\* read_existing_config: [err, value]; ioOk is whether open/read succeed
read_existing_config(c, ioOk) ==
    IF ~exists(c) THEN [err |-> NoError, value |-> NoneCfg]
    ELSE IF ioOk /\ Parses(c)
         THEN [err |-> NoError,
               value |-> StorageConfig(get(c.data, KMac), get(c.data, KMachine),
                                       get(c.data, KDev), get(c.data, KSqm))]
         ELSE [err |-> AppError(ERR_CONFIG, "read_config"), value |-> UnboundCfg]

\* new_data = {**original_data, **config.to_dict()}
MergeData_DropOthers(original_data, config) == to_dict(config)

MergeData(original_data, config) ==
    [k \in DOMAIN original_data \cup IdKeys |->
        IF k \in IdKeys THEN to_dict(config)[k] ELSE original_data[k]]

\* the re-read of save_config: [ok, data]
LoadOriginal_Lenient(c, readOk) ==
    IF exists(c) /\ readOk /\ Parses(c)
    THEN [ok |-> TRUE, data |-> c.data]
    ELSE [ok |-> TRUE, data |-> EmptyObj]

LoadOriginal(c, readOk) ==
    IF ~exists(c) THEN [ok |-> TRUE, data |-> EmptyObj]
    ELSE IF readOk /\ Parses(c) THEN [ok |-> TRUE, data |-> c.data]
    ELSE [ok |-> FALSE, data |-> EmptyObj]

\* the steps of save_config at which the environment can make it fail
FailPoints == {"none", "makedirs", "chmod", "backup_open", "backup_copy",
               "read", "open_write", "write"}

\* which failures are possible for a given file system
CanFail(fsys, fail) ==
    CASE fail = "makedirs" -> ~fsys.dir
      [] fail \in {"chmod", "backup_open", "backup_copy", "read"} -> exists(fsys.file)
      [] OTHER -> TRUE

Backup(backups, t, c) ==
    [s \in DOMAIN backups \cup {t} |-> IF s = t THEN c ELSE backups[s]]

\* save_config(config, username) on file system fsys at unix second t, with
\* the step `fail` failing (or none).  Result: the file system and the
\* exception raised (NoError on normal return).
save_config(config, fsys, t, fail) ==
    IF fail = "makedirs"
    THEN [dir |-> fsys.dir, file |-> fsys.file, backups |-> fsys.backups,
          err |-> PyError("OSError")]
    ELSE IF exists(fsys.file) /\ fail = "chmod"
    THEN [dir |-> TRUE, file |-> fsys.file, backups |-> fsys.backups,
          err |-> PyError("OSError")]
    ELSE
      LET backups1 ==
            IF ~exists(fsys.file) \/ fail = "backup_open" THEN fsys.backups
            ELSE IF fail = "backup_copy" THEN Backup(fsys.backups, t, Truncated)
            ELSE Backup(fsys.backups, t, TextCopy(fsys.file))
          orig == LoadOriginal(fsys.file, fail # "read")
      IN  IF ~orig.ok \/ fail = "open_write"
          THEN [dir |-> TRUE, file |-> fsys.file, backups |-> backups1,
                err |-> AppError(ERR_CONFIG, "save_config")]
          ELSE IF fail = "write"
          THEN [dir |-> TRUE, file |-> Truncated, backups |-> backups1,
                err |-> AppError(ERR_CONFIG, "save_config")]
          ELSE [dir |-> TRUE, file |-> JsonDump(MergeData(orig.data, config)),
                backups |-> backups1, err |-> NoError]

\* ------------------------------------------------------------ process guard
\* ensure_cursor_closed over the process sets seen by its successive polls;
\* main() never calls it
max_attempts == 3
ensure_cursor_closed(polls) ==
    IF \E attempt \in 1..max_attempts : attempt <= Len(polls) /\ polls[attempt] = {}
    THEN "None" ELSE "cursor is still running"

\* ------------------------------------------------------------------- state
VARIABLES
    dirExists,      \* the parent directory chain of the config path exists
    file,           \* content of the config file
    backups,        \* unix second -> content of <path>.<second>.bak
    now,            \* int(time.time())
    running,        \* pids of the processes matching "cursor"
    pc,             \* position of the current run
    username,       \* TRUE iff os.getenv("USER") is non-empty
    automated,      \* TRUE iff os.getenv("AUTOMATED_MODE") == "1"
    unique_pids,    \* local of check_cursor_running
    current_config, \* local of main
    new_config,     \* local of main
    lastError,      \* the exception the run logged or died of
    exit_status,    \* process exit status, -1 while running
    nextId,         \* position in the random source
    runs,           \* runs launched so far
    lastSave,       \* history: the last call of save_config
    savesOnExisting \* history: number of save_config calls that found the file

vars == <<dirExists, file, backups, now, running, pc, username, automated,
          unique_pids, current_config, new_config, lastError, exit_status,
          nextId, runs, lastSave, savesOnExisting>>

fsVars  == <<dirExists, file, backups>>
envVars == <<username, automated>>
histVars == <<lastSave, savesOnExisting>>

FS == [dir |-> dirExists, file |-> file, backups |-> backups]

\* okCount: calls that returned normally so far; clean: no step of any call
\* so far was made to fail
NoSave == [called |-> FALSE, pre |-> [dir |-> FALSE, file |-> NoFile, backups |-> EmptyObj],
           config |-> NoneCfg, t |-> 0, fail |-> "none", err |-> NoError,
           okCount |-> 0, clean |-> TRUE]

\* the states in which the run is blocked in input()
PromptStates == {"ask_kill", "confirm_continue", "confirm_overwrite", "wait_exit"}

\* config objects found on disk at the start
InitObjects ==
    { Content("object",
              [k \in (IF ids THEN {KMac, KMachine, KDev} ELSE {})
                     \cup (IF sqm = "absent" THEN {} ELSE {KSqm})
                     \cup (IF other THEN OtherKeys ELSE {}) |->
                  CASE k = KMac     -> 1
                    [] k = KMachine -> 2
                    [] k = KDev     -> 3
                    [] k = KSqm     -> IF sqm = "empty" THEN 0 ELSE 4
                    [] OTHER        -> 5],
              nl) :
        ids \in BOOLEAN, sqm \in {"absent", "empty", "set"},
        other \in BOOLEAN, nl \in {"LF", "CRLF"} }

Init ==
    /\ file \in {NoFile, Invalid} \cup InitObjects
    /\ dirExists \in (IF exists(file) THEN {TRUE} ELSE BOOLEAN)
    /\ backups = EmptyObj
    /\ now = 0
    /\ running = {}
    /\ pc = "idle"
    /\ username = FALSE
    /\ automated = FALSE
    /\ unique_pids = {}
    /\ current_config = UnboundCfg
    /\ new_config = UnboundCfg
    /\ lastError = NoError
    /\ exit_status = -1
    /\ nextId = 6
    /\ runs = 0
    /\ lastSave = NoSave
    /\ savesOnExisting = 0

\* ---------------------------------------------------------------- helpers
\* sys.exit / falling off the end of the script
Exit(code) == pc' = "exited" /\ exit_status' = code

\* wait_exit() followed by the return of main()
WaitExitThenReturn ==
    IF automated THEN Exit(0) ELSE pc' = "wait_exit" /\ UNCHANGED exit_status

\* get_running_cursor_processes
get_running_cursor_processes == running

Responses == {"y", "n", "other"}

\* ------------------------------------------------------------- environment
\* the user starts the program
Launch ==
    /\ pc \in {"idle", "exited"}
    /\ runs < MaxRuns
    /\ runs' = runs + 1
    /\ username' \in BOOLEAN
    /\ automated' \in BOOLEAN
    /\ running' \in SUBSET Pids
    /\ pc' = "main"
    /\ unique_pids' = {}
    /\ current_config' = UnboundCfg
    /\ new_config' = UnboundCfg
    /\ lastError' = NoError
    /\ exit_status' = -1
    /\ UNCHANGED <<fsVars, now, nextId, histVars>>

\* the clock advances between runs
Tick ==
    /\ pc \in {"idle", "exited"}
    /\ now < MaxTime
    /\ now' = now + 1
    /\ UNCHANGED <<fsVars, running, pc, envVars, unique_pids, current_config,
                   new_config, lastError, exit_status, nextId, runs, histVars>>

\* Ctrl-C while the run is blocked in input(): KeyboardInterrupt reaches the
\* handler of the __main__ block
Interrupt ==
    /\ pc \in PromptStates
    /\ Exit(1)
    /\ lastError' = PyError("KeyboardInterrupt")
    /\ UNCHANGED <<fsVars, now, running, envVars, unique_pids, current_config,
                   new_config, nextId, runs, histVars>>

\* -------------------------------------------------------------------- main
\* main(): the username check
MainGetUser ==
    /\ pc = "main"
    /\ IF ~username
       THEN Exit(0)
       ELSE pc' = "check_cursor_running" /\ UNCHANGED exit_status
    /\ UNCHANGED <<fsVars, now, running, envVars, unique_pids, current_config,
                   new_config, lastError, nextId, runs, histVars>>

\* check_cursor_running up to its input(); pgrepOk = FALSE is pgrep failing
\* to start, whose exception is caught only by the __main__ block
CheckCursorRunning(pgrepOk) ==
    /\ pc = "check_cursor_running"
    /\ IF ~pgrepOk
       THEN /\ Exit(1)
            /\ lastError' = PyError("OSError")
            /\ UNCHANGED unique_pids
       ELSE LET pids == get_running_cursor_processes
            IN  /\ UNCHANGED <<lastError, exit_status>>
                /\ IF pids # {}
                   THEN unique_pids' = pids /\ pc' = "ask_kill"
                   ELSE UNCHANGED unique_pids /\ pc' = "read"
    /\ UNCHANGED <<fsVars, now, running, envVars, current_config, new_config,
                   nextId, runs, histVars>>

\* check_cursor_running after input(): on 'y' every pid is sent kill -9
\* (check=False, the result is not looked at) and the function returns
\* False; killed is the set of processes that actually died.  On any other
\* answer it returns True and main() calls wait_exit() and returns.
AskKill(choice, killed) ==
    /\ pc = "ask_kill"
    /\ killed \subseteq unique_pids
    /\ IF choice = "y"
       THEN /\ running' = running \ killed
            /\ pc' = "read"
            /\ UNCHANGED exit_status
       ELSE /\ killed = {}
            /\ UNCHANGED running
            /\ WaitExitThenReturn
    /\ UNCHANGED <<fsVars, now, envVars, unique_pids, current_config, new_config,
                   lastError, nextId, runs, histVars>>

\* main(): read_existing_config inside the inner try
ReadConfig(ioOk) ==
    /\ pc = "read"
    /\ LET r == read_existing_config(file, ioOk)
       IN  IF r.err = NoError
           THEN /\ current_config' = r.value
                /\ pc' = "generate"
                /\ UNCHANGED lastError
           ELSE /\ UNCHANGED current_config
                /\ lastError' = r.err
                /\ pc' = "confirm_continue"
    /\ UNCHANGED <<fsVars, now, running, envVars, unique_pids, new_config,
                   exit_status, nextId, runs, histVars>>

\* main(): confirm_action after a read failure
ConfirmContinue(response) ==
    /\ pc = "confirm_continue"
    /\ CASE response = "y" -> pc' = "generate" /\ UNCHANGED exit_status
         [] response = "n" -> Exit(0)
         [] OTHER          -> UNCHANGED <<pc, exit_status>>
    /\ UNCHANGED <<fsVars, now, running, envVars, unique_pids, current_config,
                   new_config, lastError, nextId, runs, histVars>>

\* main(): new_config = new_storage_config(current_config).  Reading the
\* never-assigned local raises UnboundLocalError, caught by the outer
\* except, after which main() goes to its final wait_exit.
Generate ==
    /\ pc = "generate"
    /\ IF current_config = UnboundCfg
       THEN /\ lastError' = PyError("UnboundLocalError")
            /\ UNCHANGED <<new_config, nextId>>
            /\ WaitExitThenReturn
       ELSE /\ new_config' = new_storage_config(current_config, nextId)
            /\ nextId' = nextId + Drawn(current_config)
            /\ pc' = "confirm_overwrite"
            /\ UNCHANGED <<lastError, exit_status>>
    /\ UNCHANGED <<fsVars, now, running, envVars, unique_pids, current_config,
                   runs, histVars>>

\* main(): confirm_action before saving
ConfirmOverwrite(response) ==
    /\ pc = "confirm_overwrite"
    /\ CASE response = "y" -> pc' = "save" /\ UNCHANGED exit_status
         [] response = "n" -> WaitExitThenReturn
         [] OTHER          -> UNCHANGED <<pc, exit_status>>
    /\ UNCHANGED <<fsVars, now, running, envVars, unique_pids, current_config,
                   new_config, lastError, nextId, runs, histVars>>

\* main(): save_config(new_config, username); any exception is caught by the
\* outer except and logged; then the final wait_exit
Save(fail) ==
    /\ pc = "save"
    /\ CanFail(FS, fail)
    /\ LET r == save_config(new_config, FS, now, fail)
       IN  /\ dirExists' = r.dir
           /\ file' = r.file
           /\ backups' = r.backups
           /\ lastError' = r.err
           /\ lastSave' = [called |-> TRUE, pre |-> FS, config |-> new_config,
                           t |-> now, fail |-> fail, err |-> r.err,
                           okCount |-> lastSave.okCount +
                                       (IF r.err = NoError THEN 1 ELSE 0),
                           clean |-> lastSave.clean /\ fail = "none"]
    /\ savesOnExisting' = savesOnExisting + (IF exists(file) THEN 1 ELSE 0)
    /\ WaitExitThenReturn
    /\ UNCHANGED <<now, running, envVars, unique_pids, current_config,
                   new_config, nextId, runs>>

\* wait_exit(): the user presses enter
WaitExit ==
    /\ pc = "wait_exit"
    /\ Exit(0)
    /\ UNCHANGED <<fsVars, now, running, envVars, unique_pids, current_config,
                   new_config, lastError, nextId, runs, histVars>>

Next ==
    \/ Launch
    \/ Tick
    \/ Interrupt
    \/ MainGetUser
    \/ \E pgrepOk \in BOOLEAN : CheckCursorRunning(pgrepOk)
    \/ \E choice \in Responses, killed \in SUBSET Pids : AskKill(choice, killed)
    \/ \E ioOk \in BOOLEAN : ReadConfig(ioOk)
    \/ \E response \in Responses : ConfirmContinue(response)
    \/ Generate
    \/ \E response \in Responses : ConfirmOverwrite(response)
    \/ \E fail \in FailPoints : Save(fail)
    \/ WaitExit

Spec == Init /\ [][Next]_vars

TypeOK ==
    /\ pc \in {"idle", "main", "check_cursor_running", "read", "generate",
               "save", "exited"} \cup PromptStates
    /\ exit_status \in {-1, 0, 1}
    /\ running \subseteq Pids
    /\ now \in 0..MaxTime
    /\ runs \in 0..MaxRuns

\* ------------------------------------------------------------------ claims
Pre == lastSave.pre
SaveOk == lastSave.called /\ lastSave.err = NoError
ConfigError(op) == AppError(ERR_CONFIG, op)

\* identifier values that exist before the new set is written: in the file,
\* in the backups and in the set read from the file
ValuesOf(c) == {c.data[k] : k \in DOMAIN c.data \cap IdKeys}
KnownIds ==
    ValuesOf(file) \cup UNION {ValuesOf(backups[s]) : s \in DOMAIN backups}
    \cup {to_dict(current_config)[k] : k \in IdKeys}
Fresh(v) == v # 0 /\ v \notin KnownIds

\* the run completed normally: the set generated by this run is on disk and
\* nothing went wrong
NormalCompletion ==
    /\ lastError = NoError
    /\ new_config.tag = "cfg"
    /\ file.kind = "object"
    /\ file.data = MergeData(file.data, new_config)

\* C1: after a successful save_config the file is an object whose four
\* identifier keys hold the new set's values and whose other keys are
\* exactly the other keys of the file before the save, values unchanged;
\* also after several consecutive saves.
C1_SaveKeepsOtherKeys ==
    SaveOk =>
        /\ file.kind = "object"
        /\ \A k \in IdKeys : file.data[k] = to_dict(lastSave.config)[k]
        /\ DOMAIN file.data = DOMAIN Pre.file.data \cup IdKeys
        /\ \A k \in DOMAIN Pre.file.data \ IdKeys : file.data[k] = Pre.file.data[k]

C1_Witness ==
    /\ SaveOk
    /\ lastSave.okCount >= 2
    /\ Pre.file.kind = "object"
    /\ OtherKeys \subseteq DOMAIN Pre.file.data
    /\ OtherKeys \subseteq DOMAIN file.data

\* C2: a save_config call on an existing file, none of whose steps fails,
\* produces one new backup file <path>.<second>.bak whose content equals
\* the file's content before the save; a call without a file creates the
\* directories and the file and no backup; over a sequence of such saves
\* there are as many backup files as saves that found the file.
C2_OneBackupPerSave ==
    /\ (lastSave.called /\ lastSave.fail = "none") =>
          IF exists(Pre.file)
          THEN /\ lastSave.t \notin DOMAIN Pre.backups
               /\ DOMAIN backups = DOMAIN Pre.backups \cup {lastSave.t}
               /\ backups[lastSave.t] = Pre.file
          ELSE /\ backups = Pre.backups
               /\ dirExists
               /\ exists(file)
    /\ lastSave.clean => Cardinality(DOMAIN backups) = savesOnExisting

\* C3: new_storage_config carries a non-empty old sqmId over and generates
\* it otherwise; the other three fields are always generated, never taken
\* from old; no field is empty.  Hence a run that saves keeps a non-empty
\* sqmId of the file and replaces the other three.
C3_SqmIdCarriedOthersFresh ==
    /\ pc \in {"confirm_overwrite", "save"} =>
          /\ IF current_config.tag = "cfg" /\ current_config.telemetry_sqm_id # 0
             THEN new_config.telemetry_sqm_id = current_config.telemetry_sqm_id
             ELSE Fresh(new_config.telemetry_sqm_id)
          /\ Fresh(new_config.telemetry_mac_machine_id)
          /\ Fresh(new_config.telemetry_machine_id)
          /\ Fresh(new_config.telemetry_dev_device_id)
          /\ \A k \in IdKeys : to_dict(new_config)[k] # 0
    /\ (SaveOk /\ get(Pre.file.data, KSqm) # 0) =>
          /\ file.data[KSqm] = Pre.file.data[KSqm]
          /\ \A k \in IdKeys \ {KSqm} : file.data[k] # get(Pre.file.data, k)

C3_Witness ==
    /\ pc = "confirm_overwrite"
    /\ lastSave.okCount >= 1
    /\ current_config.tag = "cfg"
    /\ current_config.telemetry_sqm_id # 0
    /\ new_config.telemetry_sqm_id = current_config.telemetry_sqm_id
    /\ new_config.telemetry_machine_id # current_config.telemetry_machine_id

\* C4: save_config is invoked only while no target process is running.
C4_SaveOnlyWhenClosed ==
    pc = "save" => running = {}

\* C5: a failed save_config leaves the config file with the content it had
\* before the call.
C5_FailedSaveLeavesFile ==
    (lastSave.called /\ lastSave.err # NoError) => file = Pre.file

\* C6: after a failed read that the user chose to continue from, the run
\* generates an identifier set with a fresh sqmId and reaches the overwrite
\* confirmation; after a refusal nothing is generated or written.
C6_ReadFailureRecoverable ==
    [][/\ (pc = "generate" /\ lastError = ConfigError("read_config")) =>
              /\ pc' = "confirm_overwrite"
              /\ new_config'.tag = "cfg"
              /\ Fresh(new_config'.telemetry_sqm_id)
       /\ (pc = "confirm_continue" /\ pc' = "exited") =>
              UNCHANGED <<file, new_config, nextId>>]_vars

\* C7 as stated: whenever the merge step finds the file absent, unreadable
\* or unparseable, the save returns normally and the file holds exactly the
\* four identifier keys.
C7_LenientMergeRead ==
    (/\ lastSave.called
     /\ lastSave.fail \in {"none", "backup_open", "backup_copy", "read"}
     /\ (~exists(Pre.file) \/ lastSave.fail = "read" \/ ~Parses(Pre.file))) =>
        /\ lastSave.err = NoError
        /\ file.kind = "object"
        /\ DOMAIN file.data = IdKeys

\* C7 amended: in the merge step an absent file is loaded as the empty
\* object, and a save that then returns normally wrote exactly the four
\* identifier keys; a file that exists but cannot be read or parsed at that
\* step makes save_config fail with ConfigError(save_config), as
\* read_existing_config fails on it with ConfigError(read_config), and the
\* file is not rewritten.
C7_StrictMergeRead ==
    (lastSave.called /\ lastSave.fail \notin {"makedirs", "chmod"}) =>
        /\ (~exists(Pre.file) /\ lastSave.err = NoError) =>
              file.kind = "object" /\ DOMAIN file.data = IdKeys
        /\ (exists(Pre.file) /\ (lastSave.fail = "read" \/ ~Parses(Pre.file))) =>
              /\ lastSave.err = ConfigError("save_config")
              /\ read_existing_config(Pre.file, lastSave.fail # "read").err
                    = ConfigError("read_config")
              /\ file = Pre.file

C7_Witness ==
    /\ lastSave.called
    /\ lastSave.fail = "read"
    /\ Parses(Pre.file)
    /\ lastSave.err = ConfigError("save_config")
    /\ file = Pre.file

\* C8: every failing step of save_config other than the backup makes it
\* fail with ConfigError(save_config) and with nothing else; a failing
\* backup does not fail the save.
C8_SaveFailsWithConfigError ==
    lastSave.called =>
        /\ lastSave.err \in {NoError, ConfigError("save_config")}
        /\ lastSave.fail \in {"makedirs", "chmod", "read", "open_write", "write"}
              => lastSave.err # NoError
        /\ (lastSave.fail \in {"backup_open", "backup_copy"} /\ Parses(Pre.file))
              => lastSave.err = NoError

\* C9: the exit status is 0 exactly when the run completed normally.
C9_ExitStatus ==
    pc = "exited" => (exit_status = 0 <=> NormalCompletion)

\* C10: with AUTOMATED_MODE=1 the run never waits for input.
C10_AutomatedNeverPrompts ==
    automated => pc \notin PromptStates

====
